---- MODULE Spec2Model ----
(***************************************************************************)
(* redis-protobuf: the read side of the module, PB.GET and PB.TYPE.        *)
(*                                                                         *)
(* One invocation of a command is one action: the host store runs          *)
(* commands one at a time and a handler runs to completion.  The handler   *)
(* is an operator that returns everything the invocation did: the replies  *)
(* it emitted, the calls it made (in order), whether the process was       *)
(* aborted, and the store it left behind.                                  *)
(*                                                                         *)
(* Path, FieldRef and util::msg_to_json are declared in headers that are   *)
(* not part of the sources at hand (field_ref.h, utils.h); they are        *)
(* modelled from the specification's sections 4.1, 4.2 and 4.4.            *)
(***************************************************************************)
EXTENDS Integers, Sequences, FiniteSets, TLC

\* ------------------------------------------------------------------------
\* Bounds of the model
\* ------------------------------------------------------------------------

\* argc ranges over 1..MaxArgc (the command name is argv[0]).
MaxArgc == 4

\* array indices written in a path range over 0..MaxIndex.
MaxIndex == 3

\* ------------------------------------------------------------------------
\* Fixed-width integers.  TLC's integers are 32 bits wide, so a 32- or
\* 64-bit pattern is a little-endian sequence of 16-bit limbs and a
\* mathematical integer is a sign and a 64-bit magnitude.
\* ------------------------------------------------------------------------

Limb == 2^16
LimbMax == Limb - 1
LimbTop == 2^15

Zero32 == <<0, 0>>
Zero64 == <<0, 0, 0, 0>>

\* The top bit of a pattern.
IsNeg(p) == p[Len(p)] >= LimbTop

\* p + 1 modulo 2^(16 * Len(p)).
RECURSIVE Incr(_)
Incr(p) ==
    IF p = <<>> THEN <<>>
    ELSE IF Head(p) < LimbMax THEN <<Head(p) + 1>> \o Tail(p)
    ELSE <<0>> \o Incr(Tail(p))

\* Two's complement negation: invert every limb, add one.
Negate(p) == Incr([i \in 1..Len(p) |-> LimbMax - p[i]])

\* Widening to 64 bits.
ZeroExtend(p) == p \o [i \in 1..(4 - Len(p)) |-> 0]
SignExtend(p) == p \o [i \in 1..(4 - Len(p)) |-> IF IsNeg(p) THEN LimbMax ELSE 0]

\* The mathematical integer a pattern stands for.
UnsignedValue(p) == [neg |-> FALSE, mag |-> ZeroExtend(p)]
SignedValue(p) ==
    IF IsNeg(p) THEN [neg |-> TRUE, mag |-> ZeroExtend(Negate(p))]
    ELSE [neg |-> FALSE, mag |-> ZeroExtend(p)]

\* Patterns of small integers, for writing the sample data.
Pat32(n) == <<n % Limb, (n \div Limb) % Limb>>
Pat64(n) == SignExtend(Pat32(n))

INT32_MIN == <<0, LimbTop>>
INT32_MAX == <<LimbMax, LimbTop - 1>>
UINT32_MAX == <<LimbMax, LimbMax>>
INT64_MIN == <<0, 0, 0, LimbTop>>
INT64_MAX == <<LimbMax, LimbMax, LimbMax, LimbTop - 1>>
UINT64_MAX == <<LimbMax, LimbMax, LimbMax, LimbMax>>
\* 2^63 as a uint64: the same bits as INT64_MIN.
UINT64_2_63 == <<0, 0, 0, LimbTop>>

\* ------------------------------------------------------------------------
\* Text.  A string is a sequence of one-character strings.
\* ------------------------------------------------------------------------

DigitChars == <<"0", "1", "2", "3", "4", "5", "6", "7", "8", "9">>
Letters == {"a", "b", "c", "d", "e", "f", "g", "h", "i", "j", "k", "l", "m",
            "n", "o", "p", "q", "r", "s", "t", "u", "v", "w", "x", "y", "z", "_"}
IsDigit(c) == \E i \in 1..10 : DigitChars[i] = c
DigitValue(c) == (CHOOSE i \in 1..10 : DigitChars[i] = c) - 1

\* Decimal digits of a natural number.
RECURSIVE Digits(_)
Digits(n) == IF n < 10 THEN <<DigitChars[n + 1]>>
             ELSE Digits(n \div 10) \o <<DigitChars[(n % 10) + 1]>>

\* The natural number a digit string denotes.
RECURSIVE DecimalValue(_)
DecimalValue(s) ==
    IF s = <<>> THEN 0
    ELSE DecimalValue(SubSeq(s, 1, Len(s) - 1)) * 10 + DigitValue(s[Len(s)])

\* The names of the schema.
N_name == <<"n", "a", "m", "e">>
N_age == <<"a", "g", "e">>
N_big == <<"b", "i", "g">>
N_cnt == <<"c", "n", "t">>
N_uid == <<"u", "i", "d">>
N_lat == <<"l", "a", "t">>
N_lon == <<"l", "o", "n">>
N_ok == <<"o", "k">>
N_col == <<"c", "o", "l">>
N_home == <<"h", "o", "m", "e">>
N_tags == <<"t", "a", "g", "s">>
N_ids == <<"i", "d", "s">>
N_addrs == <<"a", "d", "d", "r", "s">>
N_cols == <<"c", "o", "l", "s">>
N_attrs == <<"a", "t", "t", "r", "s">>
N_city == <<"c", "i", "t", "y">>
N_no == <<"n", "o">>
\* A name no descriptor holds.
N_nope == <<"n", "o", "p", "e">>

\* ------------------------------------------------------------------------
\* Schema: descriptors are static and shared.  A field descriptor holds the
\* field's name, its cpp_type, its cardinality and, for a message-typed
\* field, the nested type's name.
\* ------------------------------------------------------------------------

FD(name, type, card, msg) == [name |-> name, type |-> type, card |-> card, msg |-> msg]

TypeNames == {"Person", "Address"}

PersonDescriptor ==
    << FD(N_name, "STRING", "singular", ""),
       FD(N_age, "INT32", "singular", ""),
       FD(N_big, "INT64", "singular", ""),
       FD(N_cnt, "UINT32", "singular", ""),
       FD(N_uid, "UINT64", "singular", ""),
       FD(N_lat, "DOUBLE", "singular", ""),
       FD(N_lon, "FLOAT", "singular", ""),
       FD(N_ok, "BOOL", "singular", ""),
       FD(N_col, "ENUM", "singular", ""),
       FD(N_home, "MESSAGE", "singular", "Address"),
       FD(N_tags, "STRING", "repeated", ""),
       FD(N_ids, "UINT64", "repeated", ""),
       FD(N_addrs, "MESSAGE", "repeated", "Address"),
       FD(N_cols, "ENUM", "repeated", ""),
       FD(N_attrs, "MESSAGE", "map", "") >>

AddressDescriptor ==
    << FD(N_city, "STRING", "singular", ""),
       FD(N_no, "INT32", "singular", "") >>

Descriptor(type) == IF type = "Person" THEN PersonDescriptor ELSE AddressDescriptor

HasField(type, name) ==
    LET desc == Descriptor(type) IN \E i \in 1..Len(desc) : desc[i].name = name
FindField(type, name) ==
    LET desc == Descriptor(type) IN desc[CHOOSE i \in 1..Len(desc) : desc[i].name = name]

\* ------------------------------------------------------------------------
\* Message instances: a type name and a value per field.  A singular
\* message field holds <<>> (unset) or <<m>>; a repeated field holds the
\* sequence of its elements; a map field the sequence of its entries.
\* Integers are bit patterns of the field's width; a double or float is a
\* count of halves; a string is a sequence of characters.
\* ------------------------------------------------------------------------

Address(city, no) ==
    [type |-> "Address", val |-> (N_city :> city @@ N_no :> no)]

Person(name, age, big, cnt, uid, lat, home, tags, ids, addrs, cols) ==
    [type |-> "Person",
     val |-> (N_name :> name @@ N_age :> age @@ N_big :> big @@ N_cnt :> cnt @@
              N_uid :> uid @@ N_lat :> lat @@ N_lon :> lat + 1 @@
              N_ok :> (tags # <<>>) @@ N_col :> Len(ids) @@
              N_home :> home @@ N_tags :> tags @@ N_ids :> ids @@
              N_addrs :> addrs @@ N_cols :> cols @@
              N_attrs :> [i \in 1..Len(cols) |-> [key |-> <<"k">>, value |-> cols[i]]])]

Paris == Address(<<"P", "a", "r", "i", "s">>, Pat32(7))
Oslo == Address(<<"O", "s", "l", "o">>, Pat32(-3))
Nowhere == Address(<<>>, Zero32)

Bob ==
    Person(<<"B", "o", "b">>, Pat32(30), Pat64(-1), UINT32_MAX, UINT64_2_63, 3,
           <<Paris>>, << <<"x">>, <<"y">> >>, <<UINT64_MAX, Pat64(5)>>,
           <<Oslo, Paris>>, <<1, 2>>)
Eve ==
    Person(<<"E", "v", "e">>, INT32_MIN, INT64_MIN, Pat32(65536), INT64_MAX, 0,
           <<>>, <<>>, <<UINT64_2_63>>, <<Nowhere>>, <<>>)
Al ==
    Person(<<"A", "l">>, INT32_MAX, INT64_MAX, Zero32, Zero64, 1,
           <<Oslo>>, << <<>> >>, <<>>, <<>>, <<0>>)

\* ------------------------------------------------------------------------
\* The store: a key is absent, holds a value of another type of the host
\* store, or holds a message of this module's type.
\* ------------------------------------------------------------------------

Keys == {"k1", "k2"}

NoKey == [kind |-> "none"]
OtherKey == [kind |-> "other"]
PbKey(m) == [kind |-> "pb", msg |-> m]

Stores ==
    { ("k1" :> PbKey(Bob) @@ "k2" :> NoKey),
      ("k1" :> PbKey(Eve) @@ "k2" :> OtherKey),
      ("k1" :> PbKey(Al) @@ "k2" :> PbKey(Paris)),
      ("k1" :> NoKey @@ "k2" :> PbKey(Bob)),
      ("k1" :> PbKey(Nowhere) @@ "k2" :> PbKey(Eve)) }

\* ------------------------------------------------------------------------
\* Value Codec (utils.h, section 4.4): the textual object of a message.
\* Presence rule of this model: a singular scalar field is always an entry,
\* a singular message field is an entry when set, a repeated or map field
\* is always an entry (a list, empty included).
\* ------------------------------------------------------------------------

\* std::to_string of a double or float: "%f", six decimals.
to_string(halves) ==
    Digits(halves \div 2) \o <<".">> \o
    (IF halves % 2 = 1 THEN <<"5">> ELSE <<"0">>) \o <<"0", "0", "0", "0", "0">>

JsonScalar(type, v) ==
    CASE type = "INT32" -> [t |-> "int", v |-> SignedValue(v)]
      [] type = "INT64" -> [t |-> "int", v |-> SignedValue(v)]
      [] type = "UINT32" -> [t |-> "int", v |-> UnsignedValue(v)]
      [] type = "UINT64" -> [t |-> "int", v |-> UnsignedValue(v)]
      [] type = "DOUBLE" -> [t |-> "num", v |-> to_string(v)]
      [] type = "FLOAT" -> [t |-> "num", v |-> to_string(v)]
      [] type = "BOOL" -> [t |-> "bool", v |-> v]
      [] type = "STRING" -> [t |-> "str", v |-> v]
      [] OTHER -> [t |-> "enum", v |-> v]

RECURSIVE msg_to_json(_)
JsonField(msg, fd) ==
    LET v == msg.val[fd.name] IN
    CASE fd.card = "map" -> [t |-> "map", v |-> v]
      [] fd.card = "repeated" /\ fd.type = "MESSAGE" ->
            [t |-> "list", v |-> [i \in 1..Len(v) |-> msg_to_json(v[i])]]
      [] fd.card = "repeated" ->
            [t |-> "list", v |-> [i \in 1..Len(v) |-> JsonScalar(fd.type, v[i])]]
      [] fd.type = "MESSAGE" -> msg_to_json(v[1])
      [] OTHER -> JsonScalar(fd.type, v)

Present(msg, fd) ==
    ~(fd.card = "singular" /\ fd.type = "MESSAGE" /\ msg.val[fd.name] = <<>>)

msg_to_json(msg) ==
    LET desc == Descriptor(msg.type)
        all == [i \in 1..Len(desc) |->
                   IF Present(msg, desc[i])
                   THEN <<[key |-> desc[i].name, value |-> JsonField(msg, desc[i])]>>
                   ELSE <<>>]
        cat[i \in 0..Len(desc)] == IF i = 0 THEN <<>> ELSE cat[i - 1] \o all[i]
    IN [t |-> "object", v |-> cat[Len(desc)]]

\* ------------------------------------------------------------------------
\* Path (field_ref.h, section 4.1): a declared root type and the segments
\* parsed from the text.  Purely syntactic.
\* ------------------------------------------------------------------------

IdentChars == Letters \cup {DigitChars[i] : i \in 1..10}

\* The first position of c in s, 0 when absent.
IndexOf(s, c) ==
    IF \E i \in 1..Len(s) : s[i] = c
    THEN CHOOSE i \in 1..Len(s) : s[i] = c /\ \A j \in 1..(i - 1) : s[j] # c
    ELSE 0

\* The pieces of s between the separators c.
RECURSIVE SplitOn(_, _)
SplitOn(s, c) ==
    LET i == IndexOf(s, c) IN
    IF i = 0 THEN <<s>>
    ELSE <<SubSeq(s, 1, i - 1)>> \o SplitOn(SubSeq(s, i + 1, Len(s)), c)

IsIdent(s) == s # <<>> /\ \A i \in 1..Len(s) : s[i] \in IdentChars
IsNumber(s) == s # <<>> /\ \A i \in 1..Len(s) : IsDigit(s[i])

Segment(name, indexed, idx) == [name |-> name, indexed |-> indexed, idx |-> idx]
BadSegment == [ok |-> FALSE, seg |-> Segment(<<>>, FALSE, 0)]

\* identifier, optionally followed by [ non-negative integer ].
ParseSegment(piece) ==
    LET lb == IndexOf(piece, "[") IN
    IF lb = 0 THEN
        IF IsIdent(piece) THEN [ok |-> TRUE, seg |-> Segment(piece, FALSE, 0)]
        ELSE BadSegment
    ELSE
        LET name == SubSeq(piece, 1, lb - 1)
            inner == SubSeq(piece, lb + 1, Len(piece) - 1)
        IN IF IsIdent(name) /\ piece[Len(piece)] = "]" /\ IsNumber(inner)
           THEN [ok |-> TRUE, seg |-> Segment(name, TRUE, DecimalValue(inner))]
           ELSE BadSegment

\* Path::Path(arg): throws on a malformed text.
Path(arg) ==
    IF arg.text = <<>> THEN [exc |-> "", type |-> arg.type, fields |-> <<>>]
    ELSE
        LET pieces == SplitOn(arg.text, ".")
            parsed == [i \in 1..Len(pieces) |-> ParseSegment(pieces[i])]
        IN IF \A i \in 1..Len(parsed) : parsed[i].ok
           THEN [exc |-> "", type |-> arg.type,
                 fields |-> [i \in 1..Len(parsed) |-> parsed[i].seg]]
           ELSE [exc |-> "ParseError", type |-> arg.type, fields |-> <<>>]

\* ------------------------------------------------------------------------
\* FieldRef (field_ref.h, section 4.2): the owning message, the field's
\* descriptor and the optional index.  msg is a pointer into the tree:
\* where holds the segments that lead from the root to the owning message.
\* Resolution is for a read: it checks bounds and materializes nothing.
\* ------------------------------------------------------------------------

NoFieldDesc == FD(<<>>, "", "", "")

RefError(exc, cur) ==
    [exc |-> exc, msg |-> cur, field_desc |-> NoFieldDesc,
     indexed |-> FALSE, arr_idx |-> 0, where |-> <<>>]

RECURSIVE Resolve(_, _, _)
Resolve(cur, segs, where) ==
    LET seg == Head(segs) IN
    IF ~HasField(cur.type, seg.name) THEN RefError("UnknownFieldError", cur)
    ELSE
        LET fd == FindField(cur.type, seg.name)
            v == cur.val[seg.name]
        IN
        IF seg.indexed /\ fd.card # "repeated" THEN RefError("TypeMismatchError", cur)
        ELSE IF seg.indexed /\ seg.idx >= Len(v) THEN RefError("OutOfRangeError", cur)
        ELSE IF Len(segs) = 1 THEN
            [exc |-> "", msg |-> cur, field_desc |-> fd,
             indexed |-> seg.indexed, arr_idx |-> seg.idx, where |-> where]
        ELSE IF fd.type # "MESSAGE" THEN RefError("TypeMismatchError", cur)
        ELSE IF fd.card = "map" \/ (fd.card = "repeated" /\ ~seg.indexed)
            THEN RefError("UnsupportedTypeError", cur)
        ELSE IF fd.card = "singular" /\ v = <<>> THEN RefError("Error", cur)
        ELSE Resolve(IF seg.indexed THEN v[seg.idx + 1] ELSE v[1],
                     Tail(segs), where \o <<seg>>)

\* FieldRef::FieldRef(root_msg, path), path not empty.
FieldRef(root, path) == Resolve(root, path.fields, <<>>)

is_array_element(field) == field.indexed
is_array(field) == field.field_desc.card = "repeated" /\ ~field.indexed
is_map(field) == field.field_desc.card = "map"

\* The root with the message that `where` leads to replaced by m.
RECURSIVE PutAt(_, _, _)
PutAt(root, where, m) ==
    IF where = <<>> THEN m
    ELSE
        LET seg == Head(where)
            v == root.val[seg.name]
            i == IF seg.indexed THEN seg.idx + 1 ELSE 1
        IN [root EXCEPT !.val[seg.name] =
                [v EXCEPT ![i] = PutAt(v[i], Tail(where), m)]]

\* ------------------------------------------------------------------------
\* Replies of the host store, and what a call leaves behind.
\* ------------------------------------------------------------------------

ReplyWithNull == [kind |-> "null"]
ReplyWithSimpleString(text) == [kind |-> "simple_string", text |-> text]
ReplyWithStringBuffer(data) == [kind |-> "string_buffer", buf |-> data]
\* The bytes of a string field, as a buffer.
Bytes(v) == [t |-> "bytes", v |-> v]
WrongArity == [kind |-> "wrong_arity"]
reply_with_error(what) == [kind |-> "error", what |-> what]

\* RedisModule_ReplyWithLongLong(ctx, long long): the argument is converted
\* to a signed 64-bit integer at the call; the reply carries that integer.
ToLongLong(type, v) ==
    CASE type = "INT32" -> SignExtend(v)
      [] type = "UINT32" -> ZeroExtend(v)
      [] type = "BOOL" -> IF v THEN Pat64(1) ELSE Zero64
      [] OTHER -> v
ReplyWithLongLong(type, v) == [kind |-> "integer", val |-> SignedValue(ToLongLong(type, v))]

\* A call made during the invocation; an element accessor records the index
\* it was given and the field's size.
Ev(op) == [op |-> op, elem |-> FALSE, idx |-> 0, size |-> 0]
ElemEv(type, idx, size) == [op |-> type, elem |-> TRUE, idx |-> idx, size |-> size]

\* What a call did: the replies emitted, the calls made, whether the process
\* was aborted, whether undefined behaviour was reached, the exception
\* thrown ("" for none), the message passed by reference as the call leaves
\* it, and the FieldRef constructed, if any.
Outcome(replies, trace, msg) ==
    [replies |-> replies, trace |-> trace, aborted |-> FALSE, ub |-> FALSE,
     exc |-> "", msg |-> msg, frefs |-> <<>>]
Abort(trace, msg) == [Outcome(<<>>, trace, msg) EXCEPT !.aborted = TRUE]
Throw(exc, trace, msg) == [Outcome(<<>>, trace, msg) EXCEPT !.exc = exc]

AccessorName(type) ==
    CASE type = "INT32" -> "Int32"
      [] type = "INT64" -> "Int64"
      [] type = "UINT32" -> "UInt32"
      [] type = "UINT64" -> "UInt64"
      [] type = "DOUBLE" -> "Double"
      [] type = "FLOAT" -> "Float"
      [] type = "BOOL" -> "Bool"
      [] type = "STRING" -> "String"
      [] type = "MESSAGE" -> "Message"
      [] OTHER -> "Enum"

\* The reply of a scalar of the given cpp_type.
ScalarReply(type, v) ==
    CASE type \in {"INT32", "INT64", "UINT32", "UINT64", "BOOL"} -> ReplyWithLongLong(type, v)
      [] type \in {"DOUBLE", "FLOAT"} -> ReplyWithSimpleString(to_string(v))
      [] OTHER -> ReplyWithStringBuffer(Bytes(v))

\* ------------------------------------------------------------------------
\* GetCommand (get_command.cpp)
\* ------------------------------------------------------------------------

\* _get_msg with the text sent as a simple string instead of a buffer.
GetCommand_get_msg_SimpleString(msg) ==
    Outcome(<<ReplyWithSimpleString(msg_to_json(msg))>>, <<Ev("msg_to_json")>>, msg)

\* GetCommand::_get_msg: the whole message as text.
GetCommand_get_msg(msg) ==
    Outcome(<<ReplyWithStringBuffer(msg_to_json(msg))>>, <<Ev("msg_to_json")>>, msg)

\* GetCommand::_get_array_element.  An enum element hits assert(false); in
\* a build with NDEBUG the switch breaks and nothing is replied.  An element
\* accessor given an index outside the field's size is undefined behaviour.
GetCommand_get_array_element(ndbg, field) ==
    LET msg == field.msg
        fd == field.field_desc
        v == msg.val[fd.name]
        arr_idx == field.arr_idx
        get == ElemEv(AccessorName(fd.type), arr_idx, Len(v))
    IN
    IF fd.type = "ENUM" THEN
        IF ndbg THEN Outcome(<<>>, <<>>, msg) ELSE Abort(<<Ev("assert")>>, msg)
    ELSE IF arr_idx >= Len(v) THEN
        [Outcome(<<>>, <<get>>, msg) EXCEPT !.ub = TRUE]
    ELSE IF fd.card = "map" THEN
        Outcome(<<ReplyWithStringBuffer([t |-> "entry", v |-> v[arr_idx + 1]])>>,
                <<get, Ev("msg_to_json")>>, msg)
    ELSE IF fd.type = "MESSAGE" THEN
        Outcome(<<ReplyWithStringBuffer(msg_to_json(v[arr_idx + 1]))>>,
                <<get, Ev("msg_to_json")>>, msg)
    ELSE Outcome(<<ScalarReply(fd.type, v[arr_idx + 1])>>, <<get>>, msg)

\* The switch of _get_field, with reflection->MutableMessage in the message
\* case: the sub-message is materialized in its owner when unset.
GetCommand_get_field_Mutable(ndbg, field) ==
    LET msg == field.msg
        fd == field.field_desc
        made == IF msg.val[fd.name] = <<>> /\ fd.card = "singular"
                THEN [msg EXCEPT !.val[fd.name] = <<Address(<<>>, Zero32)>>]
                ELSE msg
    IN
    IF is_array_element(field) THEN GetCommand_get_array_element(ndbg, field)
    ELSE IF (is_array(field) \/ is_map(field)) /\ ~ndbg THEN Abort(<<Ev("assert")>>, msg)
    ELSE IF fd.type = "ENUM" THEN
        IF ndbg THEN Outcome(<<>>, <<>>, msg) ELSE Abort(<<Ev("assert")>>, msg)
    ELSE IF fd.type = "MESSAGE" THEN
        Outcome(<<ReplyWithStringBuffer(msg_to_json(made))>>, <<Ev("msg_to_json")>>, made)
    ELSE IF fd.card # "singular" THEN Abort(<<Ev(AccessorName(fd.type))>>, msg)
    ELSE Outcome(<<ScalarReply(fd.type, msg.val[fd.name])>>,
                 <<Ev(AccessorName(fd.type))>>, msg)

\* GetCommand::_get_field.  sub_msg is field.msg, the owning message.  A
\* bare repeated field or a map field hits assert(false); in a build with
\* NDEBUG control falls through to the switch, where a singular accessor
\* applied to a field that is not singular is a fatal reflection usage
\* error (the process ends), the message case serializes *sub_msg and the
\* enum case breaks without a reply.
GetCommand_get_field(ndbg, field) ==
    LET sub_msg == field.msg
        field_desc == field.field_desc
    IN
    IF is_array_element(field) THEN GetCommand_get_array_element(ndbg, field)
    ELSE IF (is_array(field) \/ is_map(field)) /\ ~ndbg THEN Abort(<<Ev("assert")>>, sub_msg)
    ELSE IF field_desc.type = "ENUM" THEN
        IF ndbg THEN Outcome(<<>>, <<>>, sub_msg) ELSE Abort(<<Ev("assert")>>, sub_msg)
    ELSE IF field_desc.type = "MESSAGE" THEN
        Outcome(<<ReplyWithStringBuffer(msg_to_json(sub_msg))>>, <<Ev("msg_to_json")>>, sub_msg)
    ELSE IF field_desc.card # "singular" THEN Abort(<<Ev(AccessorName(field_desc.type))>>, sub_msg)
    ELSE Outcome(<<ScalarReply(field_desc.type, sub_msg.val[field_desc.name])>>,
                 <<Ev(AccessorName(field_desc.type))>>, sub_msg)

\* _reply_with_msg with path.empty() tested before the types are compared.
GetCommand_reply_with_msg_EmptyFirst(ndbg, msg, paths) ==
    IF paths = <<>> THEN GetCommand_get_msg(msg)
    ELSE
        LET path == paths[1] IN
        IF path.fields = <<>> THEN GetCommand_get_msg(msg)
        ELSE IF msg.type # path.type THEN Throw("type missmatch", <<Ev("GetTypeName")>>, msg)
        ELSE
            LET ref == FieldRef(msg, path) IN
            IF ref.exc # "" THEN Throw(ref.exc, <<Ev("GetTypeName"), Ev("FieldRef")>>, msg)
            ELSE
                LET r == GetCommand_get_field(ndbg, ref) IN
                [r EXCEPT !.trace = <<Ev("GetTypeName"), Ev("FieldRef")>> \o @,
                          !.frefs = <<ref>>,
                          !.msg = PutAt(msg, ref.where, r.msg)]

\* GetCommand::_reply_with_msg.
GetCommand_reply_with_msg(ndbg, msg, paths) ==
    IF paths = <<>> THEN GetCommand_get_msg(msg)
    ELSE
        LET path == paths[1] IN
        IF msg.type # path.type THEN Throw("type missmatch", <<Ev("GetTypeName")>>, msg)
        ELSE IF path.fields = <<>> THEN
            [GetCommand_get_msg(msg) EXCEPT !.trace = <<Ev("GetTypeName")>> \o @]
        ELSE
            LET ref == FieldRef(msg, path) IN
            IF ref.exc # "" THEN Throw(ref.exc, <<Ev("GetTypeName"), Ev("FieldRef")>>, msg)
            ELSE
                LET r == GetCommand_get_field(ndbg, ref) IN
                [r EXCEPT !.trace = <<Ev("GetTypeName"), Ev("FieldRef")>> \o @,
                          !.frefs = <<ref>>,
                          !.msg = PutAt(msg, ref.where, r.msg)]

\* _parse_args with the count tested as argc < 2.
GetCommand_parse_args_AtLeast2(argv) ==
    IF argv.argc < 2 THEN
        [exc |-> "WrongArityError", key_name |-> "", paths |-> <<>>, trace |-> <<>>]
    ELSE IF argv.argc = 3 THEN
        LET path == Path(argv.path) IN
        IF path.exc # "" THEN
            [exc |-> path.exc, key_name |-> argv.key, paths |-> <<>>, trace |-> <<Ev("Path")>>]
        ELSE [exc |-> "", key_name |-> argv.key, paths |-> <<path>>, trace |-> <<Ev("Path")>>]
    ELSE [exc |-> "", key_name |-> argv.key, paths |-> <<>>, trace |-> <<>>]

\* GetCommand::_parse_args.  The Path is constructed, and so parsed, here.
GetCommand_parse_args(argv) ==
    IF argv.argc # 2 /\ argv.argc # 3 THEN
        [exc |-> "WrongArityError", key_name |-> "", paths |-> <<>>, trace |-> <<>>]
    ELSE IF argv.argc = 3 THEN
        LET path == Path(argv.path) IN
        IF path.exc # "" THEN
            [exc |-> path.exc, key_name |-> argv.key, paths |-> <<>>, trace |-> <<Ev("Path")>>]
        ELSE [exc |-> "", key_name |-> argv.key, paths |-> <<path>>, trace |-> <<Ev("Path")>>]
    ELSE [exc |-> "", key_name |-> argv.key, paths |-> <<>>, trace |-> <<>>]

\* What an invocation leaves: the outcome and the store.
Result(out, st) ==
    [replies |-> out.replies, trace |-> out.trace, aborted |-> out.aborted,
     ub |-> out.ub, frefs |-> out.frefs, store |-> st]

\* The catch clauses of run: a WrongArityError becomes the wrong-arity
\* reply, any other Error an error reply; an abort is not caught.
Caught(out) ==
    IF out.aborted \/ out.ub \/ out.exc = "" THEN out
    ELSE IF out.exc = "WrongArityError" THEN [out EXCEPT !.replies = @ \o <<WrongArity>>]
    ELSE [out EXCEPT !.replies = @ \o <<reply_with_error(out.exc)>>]

\* GetCommand::run.
GetCommand_run(st, ndbg, argv) ==
    LET args == GetCommand_parse_args(argv)
        parsed == <<Ev("_parse_args")>> \o args.trace
    IN
    IF args.exc # "" THEN Result(Caught(Throw(args.exc, parsed, Nowhere)), st)
    ELSE
        LET opened == parsed \o <<Ev("open_key"), Ev("key_exists")>> IN
        IF st[args.key_name].kind # "pb" THEN
            Result(Outcome(<<ReplyWithNull>>, opened, Nowhere), st)
        ELSE
            LET msg == st[args.key_name].msg
                r == GetCommand_reply_with_msg(ndbg, msg, args.paths)
                out == [r EXCEPT !.trace = opened \o <<Ev("get_msg_by_key")>> \o @]
            IN Result(Caught(out), [st EXCEPT ![args.key_name] = PbKey(r.msg)])

\* ------------------------------------------------------------------------
\* TypeCommand (type_command.cpp)
\* ------------------------------------------------------------------------

\* TypeCommand::_parse_args.
TypeCommand_parse_args(argv) ==
    IF argv.argc # 2 THEN [exc |-> "WrongArityError", key_name |-> ""]
    ELSE [exc |-> "", key_name |-> argv.key]

\* run with an Error thrown when the key holds no message.
TypeCommand_run_ErrorOnMissing(st, argv) ==
    LET args == TypeCommand_parse_args(argv)
        parsed == <<Ev("_parse_args")>>
    IN
    IF args.exc # "" THEN Result(Caught(Throw(args.exc, parsed, Nowhere)), st)
    ELSE
        LET opened == parsed \o <<Ev("open_key"), Ev("key_exists")>> IN
        IF st[args.key_name].kind # "pb" THEN
            Result(Caught(Throw("key not found", opened, Nowhere)), st)
        ELSE
            LET msg == st[args.key_name].msg IN
            Result(Outcome(<<ReplyWithSimpleString(msg.type)>>,
                           opened \o <<Ev("get_msg_by_key"), Ev("GetTypeName")>>, msg), st)

\* TypeCommand::run.
TypeCommand_run(st, argv) ==
    LET args == TypeCommand_parse_args(argv)
        parsed == <<Ev("_parse_args")>>
    IN
    IF args.exc # "" THEN Result(Caught(Throw(args.exc, parsed, Nowhere)), st)
    ELSE
        LET opened == parsed \o <<Ev("open_key"), Ev("key_exists")>> IN
        IF st[args.key_name].kind # "pb" THEN
            Result(Outcome(<<ReplyWithNull>>, opened, Nowhere), st)
        ELSE
            LET msg == st[args.key_name].msg IN
            Result(Outcome(<<ReplyWithSimpleString(msg.type)>>,
                           opened \o <<Ev("get_msg_by_key"), Ev("GetTypeName")>>, msg), st)

\* ------------------------------------------------------------------------
\* The arguments a client may send.
\* ------------------------------------------------------------------------

\* The text of a path, as a client writes it.
FormatSegment(seg) ==
    seg.name \o (IF seg.indexed THEN <<"[">> \o Digits(seg.idx) \o <<"]">> ELSE <<>>)
RECURSIVE FormatPath(_)
FormatPath(segs) ==
    IF segs = <<>> THEN <<>>
    ELSE IF Len(segs) = 1 THEN FormatSegment(segs[1])
    ELSE FormatSegment(segs[1]) \o <<".">> \o FormatPath(Tail(segs))

Indices == 0..MaxIndex

AllNames == {N_name, N_age, N_big, N_cnt, N_uid, N_lat, N_lon, N_ok, N_col, N_home,
             N_tags, N_ids, N_addrs, N_cols, N_attrs, N_city, N_no, N_nope}
IndexedNames == {N_tags, N_ids, N_addrs, N_cols, N_attrs, N_age, N_nope}
FirstSegments ==
    {Segment(n, FALSE, 0) : n \in {N_home, N_addrs, N_age, N_attrs, N_col, N_nope}}
    \cup {Segment(N_addrs, TRUE, i) : i \in Indices}
SecondSegments ==
    {Segment(n, FALSE, 0) : n \in {N_city, N_no, N_nope}} \cup {Segment(N_city, TRUE, 0)}

SegmentLists ==
    {<<>>}
    \cup {<<Segment(n, FALSE, 0)>> : n \in AllNames}
    \cup {<<Segment(n, TRUE, i)>> : n \in IndexedNames, i \in Indices}
    \cup {<<a, b>> : a \in FirstSegments, b \in SecondSegments}

MalformedTexts ==
    { <<"a", "g", "e", "[", "-", "1", "]">>,
      <<"a", "g", "e", "[", "x", "]">>,
      <<"t", "a", "g", "s", "[", "1">>,
      <<"t", "a", "g", "s", "1", "]">>,
      <<"t", "a", "g", "s", "[", "]">>,
      <<"t", "a", "g", "s", "[", "1", "]", "x">>,
      <<"[", "1", "]">>,
      <<".", "a", "g", "e">>,
      <<"a", "g", "e", ".">>,
      <<"h", "o", "m", "e", ".", ".", "n", "o">>,
      <<"a", "g", "e", " ">> }

PathTexts == {FormatPath(segs) : segs \in SegmentLists} \cup MalformedTexts
PathArgs == {[type |-> t, text |-> x] : t \in TypeNames, x \in PathTexts}
NoPathArg == [type |-> "", text |-> <<>>]

\* argv: argv[1] is the key when argc >= 2, argv[2] the path when argc = 3
\* (with more arguments neither command reads them).
Argv(argc, key, path) ==
    [argc |-> argc,
     key |-> IF argc >= 2 THEN key ELSE "",
     path |-> IF argc = 3 THEN path ELSE NoPathArg]

\* ------------------------------------------------------------------------
\* The state machine.  store and ndebug (whether the build defines NDEBUG)
\* are the program's state; the other variables record the last invocation.
\* ------------------------------------------------------------------------

VARIABLES store, ndebug, cmd, argv, replies, trace, aborted, ub, frefs

vars == <<store, ndebug, cmd, argv, replies, trace, aborted, ub, frefs>>

Init ==
    /\ store \in Stores
    /\ ndebug \in BOOLEAN
    /\ cmd = ""
    /\ argv = Argv(0, "", NoPathArg)
    /\ replies = <<>>
    /\ trace = <<>>
    /\ aborted = FALSE
    /\ ub = FALSE
    /\ frefs = <<>>

\* The process is running: no abort, no undefined behaviour so far.
Running == ~aborted /\ ~ub

Invoke(c, a, r) ==
    /\ cmd' = c
    /\ argv' = a
    /\ replies' = r.replies
    /\ trace' = r.trace
    /\ aborted' = r.aborted
    /\ ub' = r.ub
    /\ frefs' = r.frefs
    /\ store' = r.store
    /\ UNCHANGED ndebug

\* PB.GET key [path]
PBGet ==
    /\ Running
    /\ \E argc \in 1..MaxArgc, key \in Keys :
       \E path \in (IF argc = 3 THEN PathArgs ELSE {NoPathArg}) :
       \E r \in {GetCommand_run(store, ndebug, Argv(argc, key, path))} :
          Invoke("PB.GET", Argv(argc, key, path), r)

\* PB.TYPE key
PBType ==
    /\ Running
    /\ \E argc \in 1..MaxArgc, key \in Keys :
       \E r \in {TypeCommand_run(store, Argv(argc, key, NoPathArg))} :
          Invoke("PB.TYPE", Argv(argc, key, NoPathArg), r)

Next == PBGet \/ PBType

Spec == Init /\ [][Next]_vars

\* ------------------------------------------------------------------------
\* Vocabulary of the properties
\* ------------------------------------------------------------------------

IsGet == cmd = "PB.GET"
IsType == cmd = "PB.TYPE"

\* The invocation made the call op.
Did(op) == \E i \in 1..Len(trace) : trace[i].op = op

\* The key named by the invocation holds a message of the module's type.
KeyHoldsMsg == argv.argc >= 2 /\ store[argv.key].kind = "pb"
KeyMissing == argv.argc >= 2 /\ store[argv.key].kind # "pb"
StoredMsg == store[argv.key].msg

\* The invocation carries a path argument, and it parses.
HasPath == IsGet /\ argv.argc = 3
PathParses == HasPath /\ Path(argv.path).exc = ""
PathSegments == Path(argv.path).fields

\* The argument count the command accepts.
ArityAccepted == (IsGet /\ argv.argc \in {2, 3}) \/ (IsType /\ argv.argc = 2)
ArityRejected == (IsGet /\ argv.argc \notin {2, 3}) \/ (IsType /\ argv.argc # 2)

\* The FieldRef the invocation constructed.
Resolved == IsGet /\ frefs # <<>>
TheRef == frefs[1]
RefValue ==
    IF TheRef.indexed THEN TheRef.msg.val[TheRef.field_desc.name][TheRef.arr_idx + 1]
    ELSE TheRef.msg.val[TheRef.field_desc.name]

\* A singular field, or an element of a repeated field.
RefIsValue ==
    \/ TheRef.field_desc.card = "singular" /\ ~TheRef.indexed
    \/ TheRef.field_desc.card = "repeated" /\ TheRef.indexed

IntTypes == {"INT32", "INT64", "UINT32", "UINT64"}

\* The integer a stored pattern of the given type stands for.
FieldValue(type, v) ==
    IF type \in {"INT32", "INT64"} THEN SignedValue(v) ELSE UnsignedValue(v)

\* The calls of an invocation that stops at the type check.
UpToTypeCheck ==
    <<Ev("_parse_args"), Ev("Path"), Ev("open_key"), Ev("key_exists"),
      Ev("get_msg_by_key"), Ev("GetTypeName")>>

\* ------------------------------------------------------------------------
\* The claims
\* ------------------------------------------------------------------------

\* C1: every PB.GET whose resolved field reference is an enum field
\* (singular or element), a map field or a bare repeated field ends with
\* exactly an UnsupportedTypeError reply: no abort, no value, no silence.
C1_UnsupportedRejected ==
    (Resolved /\ (TheRef.field_desc.type = "ENUM" \/ is_map(TheRef) \/ is_array(TheRef)))
        => /\ ~aborted
           /\ ~ub
           /\ replies = <<reply_with_error("UnsupportedTypeError")>>

\* C2: a PB.GET on a stored message with a path whose declared root type
\* differs from the message's type fails with the type-mismatch error,
\* whatever the segments, and stops at the type check: no FieldRef is
\* constructed and no field is read.
C2_TypeMismatchFirst ==
    (PathParses /\ KeyHoldsMsg /\ argv.path.type # StoredMsg.type)
        => /\ replies = <<reply_with_error("type missmatch")>>
           /\ trace = UpToTypeCheck
           /\ frefs = <<>>
           /\ ~aborted /\ ~ub

C2_Witness ==
    /\ PathParses /\ KeyHoldsMsg /\ argv.path.type # StoredMsg.type
    /\ Len(PathSegments) = 2
    /\ replies = <<reply_with_error("type missmatch")>>

\* C3: reading an integer field (int32, int64, uint32, uint64; singular or
\* element) replies with exactly the stored integer, uint64 values of 2^63
\* and above included.
C3_IntegerExact ==
    (Resolved /\ RefIsValue /\ TheRef.field_desc.type \in IntTypes)
        => /\ ~aborted
           /\ replies = <<[kind |-> "integer",
                           val |-> FieldValue(TheRef.field_desc.type, RefValue)]>>

\* The default instance of a message field's type.
DefaultInstance == Address(<<>>, Zero32)

\* C4: reading a path that ends on a message-typed field replies with the
\* serialization of that field's own sub-message (the element at the index
\* for a repeated field), not of the message that contains it.
C4_SubMessageSerialized ==
    (Resolved /\ RefIsValue /\ TheRef.field_desc.type = "MESSAGE")
        => replies = <<ReplyWithStringBuffer(msg_to_json(
                          IF TheRef.indexed THEN RefValue
                          ELSE IF RefValue = <<>> THEN DefaultInstance
                          ELSE RefValue[1]))>>

\* The reply that delivers the value v of an element of the given type.
Delivers(type, v) ==
    /\ ~aborted
    /\ Len(replies) = 1
    /\ CASE type \in IntTypes -> replies[1] = [kind |-> "integer", val |-> FieldValue(type, v)]
         [] type = "STRING" -> replies[1] = ReplyWithStringBuffer(Bytes(v))
         [] type = "MESSAGE" -> replies[1] = ReplyWithStringBuffer(msg_to_json(v))
         [] OTHER -> replies[1].kind \in {"integer", "simple_string", "string_buffer"}

\* C5: for a repeated field of length N, PB.GET at an index below N
\* succeeds with that element's value, PB.GET at an index of N or more
\* fails with the out-of-range error, and no element accessor is invoked
\* with an index outside 0..N-1.
C5_BoundsOnRead ==
    /\ ~ub
    /\ \A i \in 1..Len(trace) : trace[i].elem => trace[i].idx < trace[i].size
    /\ (/\ PathParses /\ KeyHoldsMsg /\ argv.path.type = StoredMsg.type
        /\ Len(PathSegments) = 1
        /\ PathSegments[1].indexed
        /\ HasField(StoredMsg.type, PathSegments[1].name)
        /\ FindField(StoredMsg.type, PathSegments[1].name).card = "repeated")
       => LET seg == PathSegments[1]
              v == StoredMsg.val[seg.name]
          IN IF seg.idx >= Len(v)
             THEN replies = <<reply_with_error("OutOfRangeError")>>
             ELSE Delivers(FindField(StoredMsg.type, seg.name).type, v[seg.idx + 1])

\* The calls of a PB.GET that replies with the whole message.
WholeMessageCalls ==
    {"_parse_args", "Path", "open_key", "key_exists", "get_msg_by_key",
     "GetTypeName", "msg_to_json"}

\* C6: PB.GET on a stored message with no path argument, or with a path of
\* zero segments whose declared type is the message's type, replies with
\* the serialization of the whole root message; no FieldRef is constructed
\* and no field accessor is called.
C6_EmptyPathWholeMessage ==
    (/\ IsGet /\ KeyHoldsMsg
     /\ \/ argv.argc = 2
        \/ PathParses /\ PathSegments = <<>> /\ argv.path.type = StoredMsg.type)
        => /\ replies = <<ReplyWithStringBuffer(msg_to_json(StoredMsg))>>
           /\ frefs = <<>>
           /\ \A i \in 1..Len(trace) : trace[i].op \in WholeMessageCalls
           /\ ~aborted /\ ~ub

C6_Witness ==
    /\ IsGet /\ KeyHoldsMsg /\ PathParses /\ PathSegments = <<>>
    /\ argv.path.type = StoredMsg.type
    /\ StoredMsg.type = "Person"
    /\ replies = <<ReplyWithStringBuffer(msg_to_json(StoredMsg))>>

\* C7: no PB.GET and no PB.TYPE invocation, successful or not, changes the
\* message under any key, and an invocation repeated right after itself
\* gets the same replies.
C7_ReadsLeaveStore ==
    [][/\ store' = store
       /\ (cmd' = cmd /\ argv' = argv) => replies' = replies]_vars

\* A read that resolved a path to an unset message field of the root.
C7_Witness ==
    /\ Resolved /\ ~TheRef.indexed
    /\ TheRef.field_desc.name = N_home
    /\ RefValue = <<>>
    /\ Len(replies) = 1

\* C8: a PB.GET with an argument count other than 2 or 3, or a PB.TYPE with
\* one other than 2, ends with the wrong-arity reply having done nothing
\* but count its arguments (no key opened, no message loaded, no path
\* parsed or resolved); an invocation with an accepted count never gets the
\* wrong-arity reply.
C8_ArityFirst ==
    /\ ArityRejected => /\ replies = <<WrongArity>>
                        /\ trace = <<Ev("_parse_args")>>
                        /\ frefs = <<>>
                        /\ ~aborted /\ ~ub
    /\ ArityAccepted => \A i \in 1..Len(replies) : replies[i].kind # "wrong_arity"

C8_Witness ==
    /\ IsGet /\ argv.argc = 4
    /\ replies = <<WrongArity>>

\* C9 as stated: with a valid argument count and a key that does not hold a
\* message of the module's type, PB.GET and PB.TYPE reply null, the message
\* is not loaded and the path is not checked; PB.TYPE on a stored message
\* replies with its type name.
C9_MissingKeyNull ==
    /\ (ArityAccepted /\ KeyMissing)
          => /\ replies = <<ReplyWithNull>>
             /\ ~Did("get_msg_by_key") /\ ~Did("GetTypeName") /\ ~Did("FieldRef")
    /\ (IsType /\ ArityAccepted /\ KeyHoldsMsg)
          => replies = <<ReplyWithSimpleString(StoredMsg.type)>>

\* C9 as amended: the same, for a PB.GET whose path argument, if any, is
\* well-formed.  (The path is parsed with the arguments, before the key is
\* looked up: a malformed path gets an error reply on a missing key too.)
C9_MissingKeyNullWellFormed ==
    /\ (ArityAccepted /\ KeyMissing /\ (HasPath => PathParses))
          => /\ replies = <<ReplyWithNull>>
             /\ ~Did("get_msg_by_key") /\ ~Did("GetTypeName") /\ ~Did("FieldRef")
             /\ ~aborted /\ ~ub
    /\ (ArityAccepted /\ KeyMissing /\ HasPath /\ ~PathParses)
          => /\ replies = <<reply_with_error("ParseError")>>
             /\ ~Did("open_key")
    /\ (IsType /\ ArityAccepted /\ KeyHoldsMsg)
          => replies = <<ReplyWithSimpleString(StoredMsg.type)>>

\* A PB.GET with a well-formed, two-segment path on a key that holds a
\* value of another type.
C9_Witness ==
    /\ PathParses /\ KeyMissing
    /\ store[argv.key].kind = "other"
    /\ Len(PathSegments) = 2
    /\ replies = <<ReplyWithNull>>

\* C10: every PB.GET and PB.TYPE invocation emits exactly one reply before
\* it returns, on every control path.
C10_ExactlyOneReply ==
    cmd # "" => (~aborted /\ ~ub /\ Len(replies) = 1)

====
